---- MODULE Spec2Model ----
(***************************************************************************)
(* A model of the News PWA: the page logic of src/sw.js (translation,      *)
(* localStorage cache, feed fetching, section loading, refreshAll) and the *)
(* service worker (src/unnamed/part_000, cache version news-pwa-v3, and    *)
(* the earlier worker at the head of src/sw.js, cache version news-pwa-v1).*)
(*                                                                         *)
(* JavaScript values are tagged tuples: <<"num", n>>, <<"nan">>,           *)
(* <<"undef">>, <<"null">>, <<"str">>, <<"list", seq>>,                    *)
(* <<"obj", timestamp, items>>.  An async function is a process whose      *)
(* actions are the stretches of code between two awaits.                   *)
(***************************************************************************)
EXTENDS Integers, Sequences, FiniteSets, TLC

VARIABLES
    now,              \* Date.now(), in ms
    storageAvailable, \* FALSE: every localStorage access throws (storage disabled)
    storageFull,      \* TRUE: setItem throws for lack of space (quota exceeded)
    storage,          \* localStorage: section -> the raw text under news_<section>
    cacheGot,         \* the last getCachedData call (none since the section was written)
    cacheSet,         \* the last setCachedData call: section, time, items
    cacheOps,         \* number of cache-helper calls made (SpecCache)
    feedResults,      \* fetchSection: what Promise.allSettled collected, per feed
    sectionItems,     \* fetchSection: the list it returned
    swOrder,          \* CacheStorage: the names of the caches, in creation order
    swStore,          \* CacheStorage: cache name -> request -> stored response
    swPhase,          \* lifecycle of the news-pwa-v3 worker
    swKeys,           \* activate: the caches.delete calls not yet completed
    swOpening,        \* install: caches.open was called and its promise is pending
    swSkipWaiting,    \* install: skipWaiting() was called and its promise is pending
    swHandlers,       \* the fetch handlers started, of either worker
    display,          \* section -> what its container shows
    isRefreshing,     \* the refresh-in-progress flag
    stamps,           \* number of updateTimestamp calls made
    loads,            \* the loadSection calls awaiting fetchSection
    pageLoaded,       \* the DOMContentLoaded handler has run
    refreshCalls,     \* number of refreshAll calls that passed the guard
    rejected,         \* sections whose loadSection promise rejected
    lastEvent,        \* the last step taken: page load, refreshAll accepted or
                      \* skipped, or a feed request's outcome
    feedConfig,       \* fetchFeed: the feed it was called with
    feedPhase,        \* fetchFeed: the await it is at
    feedRaw,          \* fetchFeed: rawItems
    feedFaults,       \* fetchFeed: the failures met by the current call
    feedResult,       \* fetchFeed: the state of the promise it returned
    feedCalls,        \* number of fetchFeed calls made (SpecFeed)
    trCalls,          \* the translateText calls of the current fetchFeed
    trRequests,       \* number of requests sent to the translation service
    translationCache  \* the Map of translateText, as a set of <<key, value>>

storeVars == <<now, storageAvailable, storageFull, storage>>
probeVars == <<cacheGot, cacheSet, cacheOps>>
cacheVars == <<storeVars, probeVars>>
sortVars == <<feedResults, sectionItems>>
swVars == <<swOrder, swStore, swPhase, swKeys, swOpening, swSkipWaiting, swHandlers>>
appVars == <<display, isRefreshing, stamps, loads, pageLoaded, refreshCalls, rejected,
             lastEvent>>
feedVars == <<feedConfig, feedPhase, feedRaw, feedFaults, feedResult, feedCalls, trCalls,
              trRequests, translationCache>>
vars == <<cacheVars, sortVars, swVars, appVars, feedVars>>

\* what the actions of one specification leave alone
notCache == <<sortVars, swVars, appVars, feedVars>>
notSort == <<cacheVars, swVars, appVars, feedVars>>
notSw == <<cacheVars, sortVars, appVars, feedVars>>
notApp == <<probeVars, sortVars, swVars, feedVars>>
notFeed == <<cacheVars, sortVars, swVars, appVars>>

-----------------------------------------------------------------------------
(* Bounds of the model *)

MaxTicks == 2        \* clock advances per behaviour
MaxCacheOps == 2     \* cache-helper calls per behaviour of SpecCache
MaxFeedItems == 2    \* items one feed returns in SpecSort
SortFeeds == 2       \* feeds of the section in SpecSort
MaxDate == 3         \* valid pubDates are the instants 1..MaxDate

-----------------------------------------------------------------------------
(* Configuration: CONFIG and FEEDS of src/sw.js *)

CACHE_DURATION_MS == 60 * 60 * 1000

Sections == {"czech", "estonia", "vaping"}

-----------------------------------------------------------------------------
(* JavaScript numbers and dates *)

NaN == <<"nan">>
Num(n) == <<"num", n>>
Undefined == <<"undef">>
JsNull == <<"null">>

\* a - b on JavaScript numbers
Minus(a, b) == IF a = NaN \/ b = NaN THEN NaN ELSE Num(a[2] - b[2])

\* a > b on JavaScript numbers: false as soon as one side is NaN
Greater(a, b) == a # NaN /\ b # NaN /\ a[2] > b[2]

\* ToNumber of a JSON value read from an object field
ToNumber(v) ==
    CASE v[1] = "num" -> v
      [] v[1] = "null" -> Num(0)
      [] OTHER -> NaN     \* undefined, a non-numeric string, an object

\* pubDate strings: <<"date", t>> parses to instant t; '' and junk do not parse
EmptyDate == <<"empty">>
JunkDate == <<"junk">>
PubDates == {EmptyDate, JunkDate} \cup {<<"date", t>> : t \in 1..MaxDate}

\* new Date(pubDate), as the number it converts to
NewDate(p) == IF p[1] = "date" THEN Num(p[2]) ELSE NaN

-----------------------------------------------------------------------------
(* News items *)

Item(src, pd, lk) == [source |-> src, pubDate |-> pd, link |-> lk]

\* sequences over S of length at most n
RECURSIVE SeqsUpTo(_, _)
SeqsUpTo(S, n) ==
    IF n = 0 THEN {<<>>}
    ELSE LET shorter == SeqsUpTo(S, n - 1)
         IN  shorter \cup {Append(q, e) : q \in {r \in shorter : Len(r) = n - 1}, e \in S}

-----------------------------------------------------------------------------
(* fetchSection: merge and sort (src/sw.js 273-283) *)

\* the comparator (a, b) => new Date(b.pubDate) - new Date(a.pubDate);
\* Array.prototype.sort reads a NaN result as +0
SortCompare(a, b) ==
    LET v == Minus(NewDate(b.pubDate), NewDate(a.pubDate))
    IN  IF v = NaN THEN 0 ELSE v[2]

\* Array.prototype.sort for fewer than 64 elements (V8: one run is counted,
\* reversed when strictly descending, the rest binary-inserted)
ReverseRange(arr, n) ==
    [i \in 1..Len(arr) |-> IF i <= n THEN arr[n + 1 - i] ELSE arr[i]]

RECURSIVE CountRun(_, _, _)
CountRun(arr, idx, desc) ==
    IF idx > Len(arr) THEN Len(arr)
    ELSE LET order == SortCompare(arr[idx], arr[idx - 1])
         IN  IF (desc /\ order >= 0) \/ (~desc /\ order < 0)
             THEN idx - 1
             ELSE CountRun(arr, idx + 1, desc)

RECURSIVE BinarySearch(_, _, _, _)
BinarySearch(arr, pivot, left, right) ==
    IF left >= right THEN left
    ELSE LET mid == left + ((right - left) \div 2)
         IN  IF SortCompare(pivot, arr[mid]) < 0
             THEN BinarySearch(arr, pivot, left, mid)
             ELSE BinarySearch(arr, pivot, mid + 1, right)

RECURSIVE BinaryInsertionSort(_, _)
BinaryInsertionSort(arr, start) ==
    IF start > Len(arr) THEN arr
    ELSE LET pivot == arr[start]
             left == BinarySearch(arr, pivot, 1, start)
             moved == [i \in 1..Len(arr) |->
                         IF i < left THEN arr[i]
                         ELSE IF i = left THEN pivot
                         ELSE IF i <= start THEN arr[i - 1]
                         ELSE arr[i]]
         IN  BinaryInsertionSort(moved, start + 1)

ArraySort(arr) ==
    IF Len(arr) < 2 THEN arr
    ELSE LET desc == SortCompare(arr[2], arr[1]) < 0
             run == CountRun(arr, 3, desc)
         IN  BinaryInsertionSort(IF desc THEN ReverseRange(arr, run) ELSE arr, run + 1)

\* results.filter(r => r.status === 'fulfilled').flatMap(r => r.value)
RECURSIVE FlatFulfilled(_, _)
FlatFulfilled(results, i) ==
    IF i > Len(results) THEN <<>>
    ELSE (IF results[i][1] = "fulfilled" THEN results[i][2] ELSE <<>>)
         \o FlatFulfilled(results, i + 1)

\* the list fetchSection returns once every feed has settled
fetchSection(results) == ArraySort(FlatFulfilled(results, 1))

-----------------------------------------------------------------------------
(* The cache helpers (src/sw.js 213-235) *)

\* what localStorage holds under a key
Absent == <<"absent">>                \* getItem returns null
EmptyText == <<"text", "">>           \* the empty string
GarbageText == <<"text", "{oops">>    \* text that is not JSON
JsonText(j) == <<"json", j>>          \* the JSON text of value j

\* JSON values: null, a number, an object with (maybe) timestamp and items
JObj(ts, items) == <<"obj", ts, items>>
JList(items) == <<"list", items>>

\* JSON.stringify({timestamp: Date.now(), items})
Stringify(t, items) == JsonText(JObj(Num(t), JList(items)))

\* data.timestamp; reading a property of null throws
Throw == <<"throw">>
Field(data, name) ==
    CASE data[1] = "null" -> Throw
      [] data[1] = "obj" -> (IF name = "timestamp" THEN data[2] ELSE data[3])
      [] OTHER -> Undefined   \* a number has no such property

\* the body of getCachedData's try block: <<"return", v>> or Throw
GetCachedTry(avail, raw, t) ==
    IF ~avail THEN Throw                              \* localStorage.getItem throws
    ELSE IF raw = Absent \/ raw = EmptyText THEN <<"return", JsNull>>   \* if (!raw)
    ELSE IF raw[1] = "text" THEN Throw                \* JSON.parse throws
    ELSE LET data == raw[2]
             ts == Field(data, "timestamp")
         IN  IF ts = Throw THEN Throw
             ELSE LET age == Minus(Num(t), ToNumber(ts))
                  IN  IF Greater(age, Num(CACHE_DURATION_MS))
                      THEN <<"return", JsNull>>
                      ELSE <<"return", data>>

\* getCachedData(section): catch { return null }
getCachedData(avail, raw, t) ==
    LET r == GetCachedTry(avail, raw, t)
    IN  IF r = Throw THEN <<"return", JsNull>> ELSE r

\* mutant of setCachedData: the new items are appended to the stored ones
SetCachedMerge(avail, raw, t, items, quota) ==
    IF ~avail \/ quota THEN raw
    ELSE IF raw[1] = "json" /\ raw[2][1] = "obj" /\ raw[2][3][1] = "list"
         THEN Stringify(t, raw[2][3][2] \o items)
         ELSE Stringify(t, items)

\* setCachedData(section, items): the text under the key afterwards; a
\* setItem that throws (storage disabled, quota exceeded) is ignored
setCachedData(avail, raw, t, items, quota) ==
    IF ~avail \/ quota THEN raw ELSE Stringify(t, items)


-----------------------------------------------------------------------------
(* The service workers: src/unnamed/part_000 (current, news-pwa-v3) and   *)
(* the head of src/sw.js (the version deployed before, news-pwa-v1)        *)

MaxHandlers == 2     \* fetch events handled per behaviour

CacheNameOld == "news-pwa-v1"
CacheNameNew == "news-pwa-v3"
CacheNameStale == "news-pwa-v2"     \* left behind by a version in between
CacheNames == {CacheNameOld, CacheNameStale, CacheNameNew}

\* CACHE_NAME as each worker's script defines it
CACHE_NAME(worker) == IF worker = "old" THEN CacheNameOld ELSE CacheNameNew

\* requests: a static asset of the origin, a cross-origin API call, and a
\* request whose scheme is not http(s) (chrome-extension:)
Requests == {"asset", "api", "ext"}
IsHttp(req) == req # "ext"                 \* url.protocol.startsWith('http')
IsCrossOrigin(req) == req # "asset"        \* url.hostname !== self.location.hostname

NoResp == <<"undefined">>
Resp(ok, from) == <<"resp", ok, from>>     \* response.ok, and where it was made
EmptyCache == [r \in Requests |-> NoResp]

\* net: how the handler's fetch(event.request) settled, "none" before that
FreeHandler == [worker |-> "none", req |-> "asset", pc |-> "free",
                held |-> NoResp, reply |-> <<"pending">>, orphan |-> FALSE,
                net |-> "none"]

SwIdle ==
    /\ swOrder = <<>>
    /\ swStore = [n \in CacheNames |-> EmptyCache]
    /\ swPhase = "parsed"
    /\ swKeys = {}
    /\ swOpening = FALSE
    /\ swSkipWaiting = FALSE
    /\ swHandlers = [h \in 1..MaxHandlers |-> FreeHandler]

-----------------------------------------------------------------------------
(* Rendering and the section loader (src/sw.js 327-434) *)

MaxRefresh == 2      \* refreshAll calls that pass the guard, per behaviour
MaxHangs == 1        \* feed requests that never settle, per behaviour

\* FEEDS, cut down to two feeds for czech and one for each other section
FeedCount(s) == IF s = "czech" THEN 2 ELSE 1

\* the lists fetchFeed(FEEDS[s][f]) may resolve to: for a czech feed nothing
\* (the feed failed or is empty) or one item, which for the first feed may
\* have a link that is not a string in the proxy's JSON; one item otherwise
FeedLists(s, f) ==
    IF s = "czech" /\ f = 1
    THEN {<<>>, <<Item("czech1", <<"date", 2>>, "str")>>,
          <<Item("czech1", <<"date", 2>>, "num")>>}
    ELSE IF s = "czech"
    THEN {<<>>, <<Item("czech2", <<"date", 1>>, "str")>>}
    ELSE {<<Item(s, <<"date", 1>>, "str")>>}

Pending == <<"pending">>
Hung == <<"hung">>
Fulfilled(l) == <<"fulfilled", l>>

\* what a section's container shows
Blank == <<"blank">>
Skeleton == <<"skeleton">>
EmptyState == <<"empty">>
ErrorMsg == <<"error">>
Shown(items) == <<"items", items>>

\* renderItems(container, items, section): the new content of the container,
\* or Throw: a truthy value that is no array has no map, and
\* escapeAttr(item.link) calls str.replace, which a link that is not a
\* string does not have
renderItems(items) ==
    IF \/ items[1] \in {"undef", "null", "nan"}     \* !items
       \/ items[1] = "num" /\ items[2] = 0
       \/ items[1] = "str" /\ Len(items) = 5 /\ items[3] = 0
    THEN EmptyState
    ELSE IF items[1] # "list" THEN Throw            \* items.map is not a function
    ELSE IF Len(items[2]) = 0 THEN EmptyState
    ELSE IF \E i \in 1..Len(items[2]) : items[2][i].link # "str" THEN Throw
    ELSE Shown(items[2])

\* if (cached)
Truthy(v) == v # JsNull /\ v # Num(0)

\* mutant of LoadStart: a load that reaches the network shows the placeholder
\* and makes no request
LoadStartForgets(avail, raw, t, shown, forced) ==
    LET cached == getCachedData(avail, raw, t)[2]
    IN  IF ~forced /\ Truthy(cached)
        THEN [display |-> renderItems(Field(cached, "items")), starts |-> FALSE,
              path |-> "cached"]
        ELSE [display |-> Skeleton, starts |-> FALSE, path |-> "network"]

\* loadSection up to its first await: the cache fast path, or the skeleton
\* and the call of fetchSection
LoadStart(avail, raw, t, shown, forced) ==
    LET cached == getCachedData(avail, raw, t)[2]
    IN  IF ~forced /\ Truthy(cached)
        THEN LET r == renderItems(Field(cached, "items"))
             IN  IF r = Throw
                 THEN [display |-> shown, starts |-> FALSE, path |-> "rejected"]
                 ELSE [display |-> r, starts |-> FALSE, path |-> "cached"]
        ELSE [display |-> Skeleton, starts |-> TRUE, path |-> "network"]

\* the catch block's inner try: what it renders, <<"none">> when nothing is
\* stored, Throw when reading, parsing or rendering throws
StaleRender(avail, raw) ==
    IF ~avail THEN Throw
    ELSE IF raw = Absent \/ raw = EmptyText THEN <<"none">>
    ELSE IF raw[1] = "text" THEN Throw
    ELSE LET items == Field(raw[2], "items")
         IN  IF items = Throw THEN Throw ELSE renderItems(items)

\* mutant of LoadFinish: an empty result is rendered but not stored
LoadFinishSkipsEmpty(avail, raw, t, items, quota) ==
    LET stored == IF items = <<>> THEN raw ELSE setCachedData(avail, raw, t, items, quota)
        r == renderItems(JList(items))
    IN  IF r # Throw THEN [storage |-> stored, display |-> r, path |-> "fresh"]
        ELSE [storage |-> stored, display |-> ErrorMsg, path |-> "error"]

\* loadSection after fetchSection has resolved to items
LoadFinish(avail, raw, t, items, quota) ==
    LET stored == setCachedData(avail, raw, t, items, quota)
        r == renderItems(JList(items))
    IN  IF r # Throw THEN [storage |-> stored, display |-> r, path |-> "fresh"]
        ELSE LET st == StaleRender(avail, stored)
             IN  IF st = Throw \/ st = <<"none">>
                 THEN [storage |-> stored, display |-> ErrorMsg, path |-> "error"]
                 ELSE [storage |-> stored, display |-> st, path |-> "stale"]

NewLoad(s, call) ==
    [section |-> s, call |-> call, feeds |-> [f \in 1..FeedCount(s) |-> Pending]]

\* Promise.allSettled(feeds.map(f => fetchFeed(f))) has resolved
AllSettled(feeds) == \A f \in DOMAIN feeds : feeds[f][1] = "fulfilled"

\* mutant of RefreshBlocked: refreshAll without its guard
RefreshNeverBlocked == FALSE

\* if (isRefreshing) return
RefreshBlocked == isRefreshing

\* mutant of RefreshEnd: the flag is not reset
RefreshEndKeepsFlag == [isRefreshing |-> TRUE, stamps |-> stamps + 1]

\* refreshAll after Promise.all: updateTimestamp(); isRefreshing = false
RefreshEnd == [isRefreshing |-> FALSE, stamps |-> stamps + 1]

NoEvent == "init"

AppIdle ==
    /\ display = [s \in Sections |-> Blank]
    /\ isRefreshing = FALSE
    /\ stamps = 0
    /\ loads = {}
    /\ pageLoaded = FALSE
    /\ refreshCalls = 0
    /\ rejected = {}
    /\ lastEvent = NoEvent

-----------------------------------------------------------------------------
(* Feeds and translation (src/sw.js 165-271) *)

MaxFeedCalls == 2    \* fetchFeed calls per behaviour of SpecFeed
MaxProxyItems == 2   \* items in one answer of the RSS proxy
MaxTrCalls == 3      \* translateText calls per behaviour of SpecTranslate

MAX_ITEMS_PER_FEED == 10

Rejected == <<"rejected">>

\* a string: the identity of its first 100 characters, its length, the
\* identity of the rest, and whether it contains markup
Str(head, len, tail, markup) == <<"str", head, len, tail, markup>>
EmptyStr == Str("", 0, "", FALSE)

\* !v
Falsy(v) == v = Undefined \/ v = JsNull \/ v = Num(0) \/ v = NaN \/ v = EmptyStr

\* v || d
Or(v, d) == IF Falsy(v) THEN d ELSE v

Min(a, b) == IF a < b THEN a ELSE b

\* text.slice(0, n), for n >= 100
Slice(t, n) ==
    IF t[3] <= n THEN t ELSE Str(t[2], n, IF n <= 100 THEN "" ELSE t[4], t[5])

\* stripHtml(html): the text content of the markup
stripHtml(t) == Str(t[2], t[3], t[4], FALSE)

\* `${fromLang}:${text.slice(0, 100)}`
CacheKey(fromLang, text) == <<fromLang, Slice(text, 100)>>

\* translationCache.has, .get and .set
MapHas(m, k) == \E e \in m : e[1] = k
MapGet(m, k) == (CHOOSE e \in m : e[1] = k)[2]

MapSet(m, k, v) == {e \in m : e[1] # k} \cup {<<k, v>>}

\* mutant of translateText: without the test of line 172
TranslateTextNoShortcut(text, fromLang, cache) ==
    IF MapHas(cache, CacheKey(fromLang, text))
    THEN <<"return", MapGet(cache, CacheKey(fromLang, text))>>
    ELSE <<"fetch">>

\* translateText up to its first await: <<"return", v>>, or <<"fetch">> when
\* it sends a request to the translation service
translateText(text, fromLang, cache) ==
    IF Falsy(text) \/ fromLang = "ru" THEN <<"return", text>>
    ELSE IF MapHas(cache, CacheKey(fromLang, text))
    THEN <<"return", MapGet(cache, CacheKey(fromLang, text))>>
    ELSE <<"fetch">>

\* answers of the translation service: a body that is not JSON, or a JSON
\* value: null, a number, a list, or [[[translated, ...], ...], ...] given by
\* the joined text
TrNotJson == <<"notjson">>
TrParts(t) == <<"parts", t>>

\* String(n) of a number that is an element of a part
NumText(n) == Str(ToString(n), Len(ToString(n)), "", FALSE)

\* part[0] in 'part => part[0]': Throw for null; undefined for a number, an
\* object, an empty string and an empty array; the first character of a
\* string; the first element of an array
PartFirst(part) ==
    IF part[1] \in {"null", "undef"} THEN Throw
    ELSE IF part[1] = "str"
    THEN (IF part[3] = 0 THEN Undefined ELSE Str(part[2] \o "[0]", 1, "", FALSE))
    ELSE IF part[1] = "list"
    THEN (IF part[2] = <<>> THEN Undefined ELSE part[2][1])
    ELSE Undefined

\* a followed by b; the head of a text names its first 100 characters
StrJoin(a, b) ==
    IF a = EmptyStr THEN b
    ELSE IF b = EmptyStr THEN a
    ELSE IF a[3] >= 100 THEN Str(a[2], a[3] + b[3], a[4] \o b[2] \o b[4], a[5] \/ b[5])
    ELSE Str(a[2] \o b[2], a[3] + b[3], b[4], a[5] \/ b[5])

\* what join makes of one element: nothing of undefined and null, String(e)
\* of any other, which for an array is its elements joined with commas and
\* for an object '[object Object]'
RECURSIVE ElemText(_), JoinComma(_)
ElemText(e) ==
    IF e[1] \in {"undef", "null"} THEN EmptyStr
    ELSE IF e[1] = "num" THEN NumText(e[2])
    ELSE IF e[1] = "nan" THEN Str("NaN", 3, "", FALSE)
    ELSE IF e[1] = "list" THEN JoinComma(e[2])
    ELSE IF e[1] = "obj" THEN Str("[object Object]", 15, "", FALSE)
    ELSE e

\* Array.prototype.toString: join(',')
JoinComma(l) ==
    IF l = <<>> THEN EmptyStr
    ELSE IF Len(l) = 1 THEN ElemText(l[1])
    ELSE StrJoin(ElemText(l[1]), StrJoin(Str(",", 1, "", FALSE), JoinComma(Tail(l))))

\* data[0].map(part => part[0]).join(''), data[0] being an array
RECURSIVE JoinParts(_)
JoinParts(parts) ==
    IF parts = <<>> THEN EmptyStr
    ELSE LET first == PartFirst(parts[1])
             rest == JoinParts(Tail(parts))
         IN  IF first = Throw \/ rest = Throw THEN Throw
             ELSE StrJoin(ElemText(first), rest)

\* translateText from resp.json() to translationCache.set: the translated
\* text, or Throw
TranslateParse(body) ==
    IF body[1] = "notjson" THEN Throw             \* resp.json() rejects
    ELSE IF body[1] = "parts" THEN body[2]        \* the expected shape
    ELSE IF body[1] # "list" THEN Throw           \* data[0] of null, undefined.map
    ELSE IF body[2] = <<>> THEN Throw             \* data[0] is undefined
    ELSE IF body[2][1][1] # "list" THEN Throw     \* data[0].map is not a function
    ELSE JoinParts(body[2][1][2])                 \* data[0].map(...).join('')

\* translateText: catch { return text }
TranslateCatch(r, text) == IF r = Throw THEN text ELSE r

\* an item of the proxy's JSON
PItem(title, description, link, pubDate) == <<"item", title, description, link, pubDate>>

HashLink == Str("#", 1, "", FALSE)

\* one element of rawItems (originalTitle is not a property yet); Throw when
\* the proxy's item is null
RawItem(item, feed) ==
    IF item = JsNull THEN Throw
    ELSE [title |-> stripHtml(Or(item[2], EmptyStr)),
          description |-> Slice(stripHtml(Or(item[3], EmptyStr)), 300),
          link |-> Or(item[4], HashLink),
          pubDate |-> Or(item[5], EmptyDate),
          source |-> feed.name,
          lang |-> feed.lang,
          originalTitle |-> Undefined]

\* data.items.slice(0, CONFIG.MAX_ITEMS_PER_FEED).map(...): <<"items", list>>,
\* or Throw
RawItems(items, feed) ==
    LET cut == SubSeq(items, 1, Min(Len(items), MAX_ITEMS_PER_FEED))
    IN  IF \E i \in 1..Len(cut) : cut[i] = JsNull THEN Throw
        ELSE <<"items", [i \in 1..Len(cut) |-> RawItem(cut[i], feed)]>>

\* the proxy's JSON: null, or an object with (maybe) status and items
ProxyNotJson == <<"notjson">>
Data(status, items) == <<"data", status, items>>

\* fetchFeed from the parsed answer to its return or its next await: Throw,
\* <<"return", list>>, or <<"translate", rawItems>>
FetchFeedParsed(data, feed) ==
    IF data = JsNull THEN Throw                                \* data.status of null
    ELSE IF data[2] # "ok" \/ Falsy(data[3]) THEN <<"return", <<>>>>
    ELSE IF data[3][1] # "list" THEN Throw                     \* no slice, or no map
    ELSE LET raw == RawItems(data[3][2], feed)
         IN  IF raw = Throw THEN Throw
             ELSE IF feed.lang # "ru" THEN <<"translate", raw[2]>>
             ELSE <<"return", raw[2]>>

\* mutant of FeedCatch: the exception escapes fetchFeed
FeedRethrow(r) == IF r = Throw THEN Rejected ELSE Fulfilled(r[2])

\* fetchFeed: catch (err) { return [] }
FeedCatch(r) == IF r = Throw THEN Fulfilled(<<>>) ELSE Fulfilled(r[2])

\* one translateText call of translateItem, up to its first await
TrCall(i, field, text, fromLang, cache) ==
    LET r == translateText(text, fromLang, cache)
    IN  [item |-> i, field |-> field, text |-> text, lang |-> fromLang,
         state |-> IF r[1] = "return" THEN "done" ELSE "fetch",
         value |-> IF r[1] = "return" THEN r[2] ELSE Undefined,
         requested |-> r[1] = "fetch",
         answer |-> <<"none">>,
         failed |-> FALSE]

\* translateItem(item, fromLang) up to await Promise.all: the translateText
\* calls it makes
translateItem(i, item, fromLang, cache) ==
    IF fromLang = "ru" THEN <<>>
    ELSE <<TrCall(i, "title", item.title, fromLang, cache)>>
         \o (IF Falsy(item.description) THEN <<>>
             ELSE <<TrCall(i, "description", item.description, fromLang, cache)>>)

\* rawItems.map(item => translateItem(item, feedConfig.lang))
RECURSIVE TranslateItems(_, _, _, _)
TranslateItems(i, raw, fromLang, cache) ==
    IF i > Len(raw) THEN <<>>
    ELSE translateItem(i, raw[i], fromLang, cache)
         \o TranslateItems(i + 1, raw, fromLang, cache)

CallValue(calls, i, field, default) ==
    IF \E c \in 1..Len(calls) : calls[c].item = i /\ calls[c].field = field
    THEN calls[CHOOSE c \in 1..Len(calls) :
                  calls[c].item = i /\ calls[c].field = field].value
    ELSE default

\* { ...item, title, description, originalTitle: item.title }
TranslatedItem(i, item, fromLang, calls) ==
    IF fromLang = "ru" THEN item
    ELSE [item EXCEPT !.title = CallValue(calls, i, "title", item.title),
                      !.description = CallValue(calls, i, "description", EmptyStr),
                      !.originalTitle = item.title]

AllDone(calls) == \A c \in 1..Len(calls) : calls[c].state = "done"

NoFeed == [name |-> "", lang |-> ""]

FeedIdle ==
    /\ feedConfig = NoFeed
    /\ feedPhase = "idle"
    /\ feedRaw = <<>>
    /\ feedFaults = {}
    /\ feedResult = Pending
    /\ feedCalls = 0
    /\ trCalls = <<>>
    /\ trRequests = 0
    /\ translationCache = {}

-----------------------------------------------------------------------------
(* The clock *)

TicksUsed(t) == (t \div CACHE_DURATION_MS) + (t % CACHE_DURATION_MS)

\* time passes: by 1 ms, or by the cache duration
TickTo(d) ==
    /\ TicksUsed(now) < MaxTicks
    /\ now' = now + d

TickSteps == {1, CACHE_DURATION_MS}

-----------------------------------------------------------------------------
(* SpecCache: the cache helpers called on any stored value *)

ItemA == Item("f1", <<"date", 1>>, "str")
ItemB == Item("f2", <<"date", 2>>, "str")
CacheItemLists == {<<>>, <<ItemA>>, <<ItemB, ItemA>>}

\* texts some other writer may have left under a news_<section> key
ForeignRaws ==
    {Absent, EmptyText, GarbageText, JsonText(JsNull), JsonText(Num(5)),
     JsonText(JObj(Undefined, Undefined)),
     JsonText(JObj(Num(0), Undefined)),
     JsonText(JObj(<<"str">>, JList(<<ItemA>>))),
     JsonText(JObj(JsNull, JList(<<ItemA>>))),
     JsonText(JObj(Undefined, JList(<<ItemA>>))),
     Stringify(0, <<ItemA>>), Stringify(1, <<>>)}

NoGet == [section |-> "none", at |-> 0, raw |-> Absent, result |-> JsNull]
NoSet == [section |-> "none", at |-> 0, items |-> <<>>, stored |-> FALSE]

SortIdle ==
    /\ feedResults = <<>>
    /\ sectionItems = <<"none">>

CacheInit ==
    /\ now = 0
    /\ storageAvailable \in BOOLEAN
    /\ storageFull = FALSE
    /\ \E s \in Sections, r \in ForeignRaws :
          storage = [t \in Sections |->
                       IF t = s /\ storageAvailable THEN r ELSE Absent]
    /\ cacheGot = NoGet
    /\ cacheSet = NoSet
    /\ cacheOps = 0
    /\ SortIdle
    /\ SwIdle
    /\ AppIdle
    /\ FeedIdle

CacheGet(s) ==
    /\ cacheOps < MaxCacheOps
    /\ cacheOps' = cacheOps + 1
    /\ cacheGot' = [section |-> s, at |-> now, raw |-> storage[s],
                    result |-> getCachedData(storageAvailable, storage[s], now)[2]]
    /\ UNCHANGED <<storeVars, cacheSet, notCache>>

CacheSet(s, items, quota) ==
    /\ cacheOps < MaxCacheOps
    /\ cacheOps' = cacheOps + 1
    /\ storage' = [storage EXCEPT
                     ![s] = setCachedData(storageAvailable, storage[s], now, items, quota)]
    /\ cacheSet' = [section |-> s, at |-> now, items |-> items,
                    stored |-> storageAvailable /\ ~quota]
    /\ cacheGot' = IF cacheGot.section = s THEN NoGet ELSE cacheGot
    /\ UNCHANGED <<now, storageAvailable, storageFull, notCache>>

CacheTick(d) ==
    /\ TickTo(d)
    /\ UNCHANGED <<storageAvailable, storageFull, storage, probeVars, notCache>>

CacheNext ==
    \/ \E s \in Sections : CacheGet(s)
    \/ \E s \in Sections, items \in CacheItemLists, quota \in BOOLEAN :
          CacheSet(s, items, quota)
    \/ \E d \in TickSteps : CacheTick(d)

SpecCache == CacheInit /\ [][CacheNext]_vars


\* C3 (as claimed): getCachedData returns null exactly when the key is absent,
\* the stored value is malformed (unparsable, or no entry with a timestamp and
\* items) or older than CACHE_DURATION_MS, and the stored entry otherwise.
WellFormedEntry(raw) ==
    /\ raw[1] = "json"
    /\ raw[2][1] = "obj"
    /\ raw[2][2][1] = "num"
    /\ raw[2][3][1] = "list"

C3_NullIffMissingMalformedExpired ==
    cacheGot.section # "none" =>
        LET raw == cacheGot.raw
            missing == ~storageAvailable \/ raw = Absent
            expired == WellFormedEntry(raw)
                       /\ cacheGot.at - raw[2][2][2] > CACHE_DURATION_MS
        IN  /\ (cacheGot.result = JsNull) <=> (missing \/ ~WellFormedEntry(raw) \/ expired)
            /\ cacheGot.result # JsNull => cacheGot.result = raw[2]

\* C4: a getCachedData that follows setCachedData(s, items) on the same
\* section within CACHE_DURATION_MS ...
RoundTripCase ==
    /\ cacheGot.section # "none"
    /\ cacheGot.section = cacheSet.section
    /\ cacheGot.at - cacheSet.at <= CACHE_DURATION_MS

GotItems(items) ==
    /\ cacheGot.result[1] = "obj"
    /\ cacheGot.result[3] = JList(items)

\* C4 (as claimed): ... returns exactly items, the store being fallible.
C4_RoundTripAlways == RoundTripCase => GotItems(cacheSet.items)

\* C4 (amended): ... returns exactly items, never merged with the entry
\* stored before, provided the write did not throw.
C4_RoundTripWhenStored ==
    (RoundTripCase /\ cacheSet.stored) => GotItems(cacheSet.items)

\* C4 witness: an entry written over another one is read back when its age
\* is exactly CACHE_DURATION_MS.
C4_Witness ==
    /\ RoundTripCase
    /\ cacheSet.stored
    /\ cacheSet.items = <<ItemB, ItemA>>
    /\ cacheGot.at - cacheSet.at = CACHE_DURATION_MS
    /\ GotItems(cacheSet.items)

-----------------------------------------------------------------------------
(* SpecSort: fetchSection on every combination of per-feed results *)

FeedName(i) == IF i = 1 THEN "f1" ELSE IF i = 2 THEN "f2" ELSE "f3"

FeedOutcomes(i) ==
    {<<"rejected">>} \cup
    {<<"fulfilled", l>> :
        l \in SeqsUpTo({Item(FeedName(i), pd, "str") : pd \in PubDates}, MaxFeedItems)}

RECURSIVE SettledResults(_)
SettledResults(n) ==
    IF n = 0 THEN {<<>>}
    ELSE {Append(rs, r) : rs \in SettledResults(n - 1), r \in FeedOutcomes(n)}

CacheIdle ==
    /\ now = 0
    /\ storageAvailable = TRUE
    /\ storageFull = FALSE
    /\ storage = [s \in Sections |-> Absent]
    /\ cacheGot = NoGet
    /\ cacheSet = NoSet
    /\ cacheOps = 0

SortInit ==
    /\ feedResults \in SettledResults(SortFeeds)
    /\ sectionItems = <<"none">>
    /\ CacheIdle
    /\ SwIdle
    /\ AppIdle
    /\ FeedIdle

SortApply ==
    /\ sectionItems = <<"none">>
    /\ sectionItems' = JList(fetchSection(feedResults))
    /\ UNCHANGED <<feedResults, notSort>>

SortNext == SortApply

SpecSort == SortInit /\ [][SortNext]_vars

\* an item without a parsable pubDate counts as the epoch
DateKey(item) == IF item.pubDate[1] = "date" THEN item.pubDate[2] ELSE 0

Reverse(q) == [i \in 1..Len(q) |-> q[Len(q) + 1 - i]]

\* C2 (as claimed): the list fetchSection returns is ordered by pubDate
\* descending, items without a parsable pubDate last, whatever the order in
\* which the feeds' items were concatenated.
C2_SortedByDateDescending ==
    sectionItems[1] = "list" =>
        LET l == sectionItems[2]
        IN  /\ \A i \in 1..(Len(l) - 1) : DateKey(l[i]) >= DateKey(l[i + 1])
            /\ [i \in 1..Len(l) |-> DateKey(l[i])]
                 = LET m == fetchSection(Reverse(feedResults))
                   IN  [i \in 1..Len(m) |-> DateKey(m[i])]


-----------------------------------------------------------------------------
(* SpecSW: install, activate and the fetch handlers of both workers *)

Names(order) == {order[i] : i \in 1..Len(order)}

\* caches.open(name): the cache is created when it does not exist
CachesOpen(order, name) == IF name \in Names(order) THEN order ELSE Append(order, name)

\* caches.delete(name)
CachesDelete(order, name) == SelectSeq(order, LAMBDA n : n # name)

\* caches.match(request): the first match over the caches in creation order
RECURSIVE MatchFrom(_, _, _, _)
MatchFrom(order, store, req, i) ==
    IF i > Len(order) THEN NoResp
    ELSE IF store[order[i]][req] # NoResp THEN store[order[i]][req]
    ELSE MatchFrom(order, store, req, i + 1)

CachesMatch(order, store, req) == MatchFrom(order, store, req, 1)

\* the caches an earlier deployment may have left
InstalledCache == [EmptyCache EXCEPT !["asset"] = Resp(TRUE, "install")]

SwInit ==
    /\ swOrder \in {<<>>, <<CacheNameOld>>, <<CacheNameStale>>,
                    <<CacheNameOld, CacheNameStale>>, <<CacheNameStale, CacheNameOld>>}
    /\ swStore = [n \in CacheNames |->
                    IF n \in Names(swOrder) THEN InstalledCache ELSE EmptyCache]
    /\ swPhase = "parsed"
    /\ swKeys = {}
    /\ swOpening = FALSE
    /\ swSkipWaiting = FALSE
    /\ swHandlers = [h \in 1..MaxHandlers |-> FreeHandler]
    /\ CacheIdle
    /\ SortIdle
    /\ AppIdle
    /\ FeedIdle

\* mutant of SwRoute: the current worker is cache-first for static assets too
SwRouteCacheFirst(worker, req) ==
    IF worker = "new" /\ ~IsHttp(req) THEN "done"
    ELSE IF ~IsCrossOrigin(req) THEN "lookup"
    ELSE "fetching"

\* the fetch listener up to its first pending promise: it returns without
\* respondWith ("done"), asks the caches first ("lookup"), or the network
SwRoute(worker, req) ==
    IF worker = "new" /\ ~IsHttp(req) THEN "done"
    ELSE IF worker = "old" /\ ~IsCrossOrigin(req) THEN "lookup"
    ELSE "fetching"

\* a fetch event reaches the active worker: the code up to the first pending promise
\* (old worker: src/sw.js 35-59; current worker: part_000 35-71)
SwFetchEvent(h, req) ==
    /\ swHandlers[h].pc = "free"
    /\ \A g \in 1..(h - 1) : swHandlers[g].pc # "free"
    /\ swPhase \notin {"activating", "deleting"}
    /\ LET worker == IF swPhase = "activated" THEN "new" ELSE "old"
           start == [FreeHandler EXCEPT !.worker = worker, !.req = req]
       IN  swHandlers' = [swHandlers EXCEPT ![h] =
              IF SwRoute(worker, req) = "done"
              THEN [start EXCEPT !.pc = "done", !.reply = <<"passthrough">>]
              ELSE [start EXCEPT !.pc = SwRoute(worker, req)]]
    /\ UNCHANGED <<swOrder, swStore, swPhase, swKeys, swOpening, swSkipWaiting, notSw>>

\* whether the handler caches the response it got from the network: the
\* earlier worker caches cross-origin responses only, whatever their status;
\* the current worker caches a cross-origin response when it is ok and every
\* same-origin response
StoresResponse(worker, req, ok) ==
    IF worker = "old" THEN IsCrossOrigin(req)
    ELSE IF IsCrossOrigin(req) THEN ok
    ELSE TRUE

\* fetch(event.request) settles: outcome "ok", "bad" (a failure status) or
\* "fail" (the fetch rejects)
SwNetwork(h, outcome) ==
    /\ swHandlers[h].pc = "fetching"
    /\ LET hd == [swHandlers[h] EXCEPT !.net = outcome]
           resp == Resp(outcome = "ok", "net")
       IN  swHandlers' = [swHandlers EXCEPT ![h] =
              IF hd.worker = "old" /\ ~IsCrossOrigin(hd.req)
              THEN [hd EXCEPT !.pc = "done",
                              !.reply = IF outcome = "fail" THEN <<"error">> ELSE resp]
              ELSE IF outcome = "fail" THEN [hd EXCEPT !.pc = "matching"]
              ELSE IF StoresResponse(hd.worker, hd.req, outcome = "ok")
              THEN [hd EXCEPT !.pc = "opening", !.held = resp, !.reply = resp]
              ELSE [hd EXCEPT !.pc = "done", !.reply = resp]]
    /\ UNCHANGED <<swOrder, swStore, swPhase, swKeys, swOpening, swSkipWaiting, notSw>>

\* caches.match(event.request) settles
SwMatch(h) ==
    /\ swHandlers[h].pc \in {"lookup", "matching"}
    /\ LET hd == swHandlers[h]
           found == CachesMatch(swOrder, swStore, hd.req)
       IN  swHandlers' = [swHandlers EXCEPT ![h] =
              IF hd.pc = "lookup" /\ found = NoResp THEN [hd EXCEPT !.pc = "fetching"]
              ELSE [hd EXCEPT !.pc = "done",
                              !.reply = IF found = NoResp THEN <<"error">> ELSE found]]
    /\ UNCHANGED <<swOrder, swStore, swPhase, swKeys, swOpening, swSkipWaiting, notSw>>

\* caches.open(CACHE_NAME) settles
SwOpen(h) ==
    /\ swHandlers[h].pc = "opening"
    /\ swOrder' = CachesOpen(swOrder, CACHE_NAME(swHandlers[h].worker))
    /\ swHandlers' = [swHandlers EXCEPT ![h].pc = "putting"]
    /\ UNCHANGED <<swStore, swPhase, swKeys, swOpening, swSkipWaiting, notSw>>

\* cache.put(event.request, clone) settles; put refuses a non-http request
SwPut(h) ==
    /\ swHandlers[h].pc = "putting"
    /\ LET hd == swHandlers[h]
       IN  swStore' = IF ~hd.orphan /\ IsHttp(hd.req)
                      THEN [swStore EXCEPT ![CACHE_NAME(hd.worker)][hd.req] = hd.held]
                      ELSE swStore
    /\ swHandlers' = [swHandlers EXCEPT ![h].pc = "done"]
    /\ UNCHANGED <<swOrder, swPhase, swKeys, swOpening, swSkipWaiting, notSw>>

\* the install event is dispatched: the listener calls caches.open(CACHE_NAME)
\* and returns, the worker installing
SwInstallEvent ==
    /\ swPhase = "parsed"
    /\ swPhase' = "installing"
    /\ swOpening' = TRUE
    /\ UNCHANGED <<swOrder, swStore, swKeys, swSkipWaiting, swHandlers, notSw>>

\* install: caches.open(CACHE_NAME) settles, the cache created;
\* cache.addAll(STATIC_ASSETS) is called
SwInstallOpen ==
    /\ swPhase = "installing"
    /\ swOpening
    /\ swOpening' = FALSE
    /\ swOrder' = CachesOpen(swOrder, CacheNameNew)
    /\ UNCHANGED <<swStore, swPhase, swKeys, swSkipWaiting, swHandlers, notSw>>

\* install: cache.addAll(STATIC_ASSETS) settles; when it resolves the assets
\* are in the cache and skipWaiting() is called, the worker still
\* installing; a failed addAll fails the installation
SwInstallAddAll(ok) ==
    /\ swPhase = "installing"
    /\ ~swOpening
    /\ ~swSkipWaiting
    /\ swPhase' = IF ok THEN "installing" ELSE "redundant"
    /\ swSkipWaiting' = ok
    /\ swStore' = IF ok
                  THEN [swStore EXCEPT ![CacheNameNew]["asset"] = Resp(TRUE, "install")]
                  ELSE swStore
    /\ UNCHANGED <<swOrder, swKeys, swOpening, swHandlers, notSw>>

\* install: the promise of skipWaiting() resolves; waitUntil is done and
\* the worker is installed
SwInstallSkipWaiting ==
    /\ swPhase = "installing"
    /\ swSkipWaiting
    /\ swPhase' = "installed"
    /\ swSkipWaiting' = FALSE
    /\ UNCHANGED <<swOrder, swStore, swKeys, swOpening, swHandlers, notSw>>

\* the worker becomes the active one and gets the activate event
SwActivateStart ==
    /\ swPhase = "installed"
    /\ swPhase' = "activating"
    /\ UNCHANGED <<swOrder, swStore, swKeys, swOpening, swSkipWaiting, swHandlers, notSw>>

\* activate: caches.keys() settles; caches.delete is called for every other key
SwActivateKeys ==
    /\ swPhase = "activating"
    /\ swPhase' = "deleting"
    /\ swKeys' = Names(swOrder) \ {CacheNameNew}
    /\ UNCHANGED <<swOrder, swStore, swOpening, swSkipWaiting, swHandlers, notSw>>

\* activate: one caches.delete(key) settles; a handler that holds the
\* deleted cache keeps an object that is no longer in the storage
SwActivateDelete(k) ==
    /\ swPhase = "deleting"
    /\ k \in swKeys
    /\ swKeys' = swKeys \ {k}
    /\ swOrder' = CachesDelete(swOrder, k)
    /\ swStore' = [swStore EXCEPT ![k] = EmptyCache]
    /\ swHandlers' = [h \in 1..MaxHandlers |->
                        IF swHandlers[h].pc = "putting" /\ CACHE_NAME(swHandlers[h].worker) = k
                        THEN [swHandlers[h] EXCEPT !.orphan = TRUE]
                        ELSE swHandlers[h]]
    /\ UNCHANGED <<swPhase, swOpening, swSkipWaiting, notSw>>

\* activate: every delete has settled; clients.claim()
SwActivateClaim ==
    /\ swPhase = "deleting"
    /\ swKeys = {}
    /\ swPhase' = "activated"
    /\ UNCHANGED <<swOrder, swStore, swKeys, swOpening, swSkipWaiting, swHandlers, notSw>>

SwNext ==
    \/ \E h \in 1..MaxHandlers, req \in Requests : SwFetchEvent(h, req)
    \/ \E h \in 1..MaxHandlers, outcome \in {"ok", "bad", "fail"} : SwNetwork(h, outcome)
    \/ \E h \in 1..MaxHandlers : SwMatch(h)
    \/ \E h \in 1..MaxHandlers : SwOpen(h)
    \/ \E h \in 1..MaxHandlers : SwPut(h)
    \/ SwInstallEvent
    \/ SwInstallOpen
    \/ \E ok \in BOOLEAN : SwInstallAddAll(ok)
    \/ SwInstallSkipWaiting
    \/ SwActivateStart
    \/ SwActivateKeys
    \/ \E k \in CacheNames : SwActivateDelete(k)
    \/ SwActivateClaim

SpecSW == SwInit /\ [][SwNext]_vars

\* C6 (as claimed): in every state after the activate phase has completed the
\* cache storage holds exactly one cache version, the one named CACHE_NAME.
C6_OneVersionAfterActivate ==
    swPhase = "activated" => Names(swOrder) = {CacheNameNew}

\* the handlers that have answered an http(s) request
Answered == {h \in 1..MaxHandlers :
               /\ swHandlers[h].worker # "none"
               /\ IsHttp(swHandlers[h].req)
               /\ swHandlers[h].reply # <<"pending">>}

\* C11 (as claimed): an intercepted http(s) request is answered with the
\* live network response whenever the network fetch settles without
\* throwing, and a cached entry is served only after the network fetch failed.
C11_NetworkFirst ==
    \A h \in Answered :
       LET hd == swHandlers[h]
       IN  /\ hd.net \in {"ok", "bad"} => hd.reply = Resp(hd.net = "ok", "net")
           /\ (hd.reply[1] = "resp" /\ hd.net \notin {"ok", "bad"}) => hd.net = "fail"

\* C11 (amended): the same for every http(s) request except the same-origin
\* requests handled by the news-pwa-v1 worker, which asks the caches first
\* and the network only when no entry matches.
C11_NetworkFirstExceptOldAssets ==
    \A h \in Answered :
       LET hd == swHandlers[h]
       IN  IF hd.worker = "new" \/ IsCrossOrigin(hd.req)
           THEN /\ hd.net \in {"ok", "bad"} => hd.reply = Resp(hd.net = "ok", "net")
                /\ hd.net \notin {"ok", "bad"} => hd.net = "fail"
           ELSE hd.net = "fail" => hd.reply = <<"error">>

\* C11 witness: the current worker has answered a same-origin request from
\* the cache after the network fetch failed, and another request with the
\* live response.
C11_Witness ==
    /\ \E h \in Answered :
          /\ swHandlers[h].worker = "new" /\ swHandlers[h].req = "asset"
          /\ swHandlers[h].net = "fail" /\ swHandlers[h].reply[1] = "resp"
    /\ \E h \in Answered :
          /\ swHandlers[h].worker = "new"
          /\ swHandlers[h].net = "bad" /\ swHandlers[h].reply = Resp(FALSE, "net")

\* C13 (as claimed): a cross-origin response that is to be cached is in the
\* cache before it is returned to the caller, so no handler has answered
\* with it while its caches.open or cache.put is still to come.
C13_StoredBeforeReturned ==
    \A h \in Answered :
       LET hd == swHandlers[h]
       IN  (hd.req = "api" /\ hd.net \in {"ok", "bad"}
              /\ StoresResponse(hd.worker, hd.req, hd.net = "ok")) =>
             /\ hd.pc = "done"
             /\ swStore[CACHE_NAME(hd.worker)][hd.req] = hd.reply

\* C14 (as claimed): only responses with an OK status are in a cache, and a
\* response served from the cache after a network failure has an OK status.
C14_OnlyOkCached ==
    /\ \A n \in CacheNames, r \in Requests :
          swStore[n][r] # NoResp => swStore[n][r][2]
    /\ \A h \in Answered :
          (swHandlers[h].net = "fail" /\ swHandlers[h].reply[1] = "resp") =>
             swHandlers[h].reply[2]


-----------------------------------------------------------------------------
(* Spec: the page, from DOMContentLoaded on *)

\* what earlier sessions may have left under a key: nothing or an entry of
\* age exactly CACHE_DURATION_MS, and for czech also an older entry, an entry
\* with an item whose link is not a string, or text that does not parse
StoredBefore(s) ==
    {Absent, Stringify(0 - CACHE_DURATION_MS, <<Item(s, <<"date", 1>>, "str")>>)}
    \cup (IF s = "czech"
          THEN {Stringify(0 - CACHE_DURATION_MS - 1, <<Item(s, <<"date", 1>>, "str")>>),
                Stringify(0, <<Item("czech1", <<"date", 2>>, "num")>>), GarbageText}
          ELSE {})

AppInit ==
    /\ now = 0
    /\ storageAvailable \in BOOLEAN
    /\ storageFull \in BOOLEAN
    /\ storageFull => storageAvailable
    /\ storage \in [Sections -> UNION {StoredBefore(s) : s \in Sections}]
    /\ \A s \in Sections : storage[s] \in (IF storageAvailable THEN StoredBefore(s) ELSE {Absent})
    /\ cacheGot = NoGet
    /\ cacheSet = NoSet
    /\ cacheOps = 0
    /\ AppIdle
    /\ SortIdle
    /\ SwIdle
    /\ FeedIdle

\* the DOMContentLoaded handler: loadSection for each section, not forced,
\* then updateTimestamp()
PageLoad ==
    /\ ~pageLoaded
    /\ pageLoaded' = TRUE
    /\ LET r == [s \in Sections |->
                   LoadStart(storageAvailable, storage[s], now, display[s], FALSE)]
       IN  /\ display' = [s \in Sections |-> r[s].display]
           /\ loads' = loads \cup {NewLoad(s, 0) : s \in {t \in Sections : r[t].starts}}
           /\ rejected' = rejected \cup {s \in Sections : r[s].path = "rejected"}
    /\ stamps' = stamps + 1
    /\ lastEvent' = "pageload"
    /\ UNCHANGED <<storeVars, isRefreshing, refreshCalls, notApp>>

\* the visibilitychange handler calls refreshAll only if some section's
\* cache is missing or stale
Triggers == {"click", "timer", "visible"}
Triggered(trigger) ==
    /\ pageLoaded
    /\ trigger = "visible" =>
          \E s \in Sections : ~Truthy(getCachedData(storageAvailable, storage[s], now)[2])

\* refreshAll called while a refresh is in progress
RefreshSkip(trigger) ==
    /\ Triggered(trigger)
    /\ RefreshBlocked
    /\ lastEvent' = "skip"
    /\ UNCHANGED <<storeVars, display, isRefreshing, stamps, loads, pageLoaded,
                   refreshCalls, rejected, notApp>>

\* refreshAll up to await Promise.all: three forced loadSection calls
RefreshAccept(trigger) ==
    /\ Triggered(trigger)
    /\ ~RefreshBlocked
    /\ refreshCalls < MaxRefresh
    /\ isRefreshing' = TRUE
    /\ refreshCalls' = refreshCalls + 1
    /\ LET r == [s \in Sections |->
                   LoadStart(storageAvailable, storage[s], now, display[s], TRUE)]
       IN  /\ display' = [s \in Sections |-> r[s].display]
           /\ loads' = loads \cup {NewLoad(s, refreshCalls + 1) :
                                     s \in {t \in Sections : r[t].starts}}
    /\ lastEvent' = "accept"
    /\ UNCHANGED <<storeVars, stamps, pageLoaded, rejected, notApp>>

\* one fetchFeed of a load resolves to list; with the last one fetchSection
\* resolves, loadSection stores and renders, and with the last load of a
\* refreshAll its Promise.all resolves
FeedSettleStep(l, f, list) ==
    /\ l \in loads
    /\ f \in DOMAIN l.feeds
    /\ l.feeds[f] = Pending
    /\ list \in FeedLists(l.section, f)
    /\ LET feeds == [l.feeds EXCEPT ![f] = Fulfilled(list)]
           s == l.section
           rest == loads \ {l}
       IN  IF AllSettled(feeds)
           THEN LET fin == LoadFinish(storageAvailable, storage[s], now,
                                      fetchSection(feeds), storageFull)
                    last == l.call > 0 /\ ~\E m \in rest : m.call = l.call
                IN  /\ loads' = rest
                    /\ storage' = [storage EXCEPT ![s] = fin.storage]
                    /\ display' = [display EXCEPT ![s] = fin.display]
                    /\ isRefreshing' = IF last THEN RefreshEnd.isRefreshing ELSE isRefreshing
                    /\ stamps' = IF last THEN RefreshEnd.stamps ELSE stamps
           ELSE /\ loads' = rest \cup {[l EXCEPT !.feeds = feeds]}
                /\ UNCHANGED <<storage, display, isRefreshing, stamps>>
    /\ UNCHANGED <<now, storageAvailable, storageFull, pageLoaded, refreshCalls, rejected,
                   notApp>>

FeedSettle(l, f, list) ==
    /\ FeedSettleStep(l, f, list)
    /\ lastEvent' = "feed"

\* a feed request that never settles
HungFeeds == {<<l, f>> \in loads \X {1, 2} : f \in DOMAIN l.feeds /\ l.feeds[f] = Hung}

FeedHang(l, f) ==
    /\ l \in loads
    /\ f \in DOMAIN l.feeds
    /\ l.feeds[f] = Pending
    /\ Cardinality(HungFeeds) < MaxHangs
    /\ loads' = (loads \ {l}) \cup {[l EXCEPT !.feeds[f] = Hung]}
    /\ lastEvent' = "feed"
    /\ UNCHANGED <<storeVars, display, isRefreshing, stamps, pageLoaded, refreshCalls,
                   rejected, notApp>>

Next ==
    \/ PageLoad
    \/ \E trigger \in Triggers : RefreshSkip(trigger)
    \/ \E trigger \in Triggers : RefreshAccept(trigger)
    \/ \E l \in loads, f \in {1, 2} :
          \E list \in FeedLists(l.section, f) : FeedSettle(l, f, list)
    \/ \E l \in loads, f \in {1, 2} : FeedHang(l, f)

Spec == AppInit /\ [][Next]_vars

\* every feed request that is not hung eventually settles
FeedSettles == \E l \in loads, f \in {1, 2} :
                  \E list \in FeedLists(l.section, f) : FeedSettle(l, f, list)

\* the czech entry an earlier visit stored CACHE_DURATION_MS ago
EarlierEntry == Stringify(0 - CACHE_DURATION_MS, <<Item("czech", <<"date", 1>>, "str")>>)

\* a first visit, nothing stored yet and storage writable; or a visit that
\* finds the earlier czech entry and storage full, so that every write throws
FairInit ==
    /\ AppInit
    /\ storageAvailable
    /\ \/ ~storageFull /\ storage = [s \in Sections |-> Absent]
       \/ storageFull /\ storage = [s \in Sections |->
                                      IF s = "czech" THEN EarlierEntry ELSE Absent]

FairSpec == FairInit /\ [][Next]_vars /\ WF_vars(FeedSettles)

\* the refreshAll calls that have a forced load in flight
RefreshesInFlight == {l.call : l \in {m \in loads : m.call > 0}}

\* C1: a refreshAll invoked while an earlier one has not finished starts no
\* loadSection and changes nothing, and at most one refreshAll fan-out, of
\* at most one forced load per section, is in flight at any time.
C1_SingleFlight ==
    [][/\ Cardinality(RefreshesInFlight') <= 1
       /\ \A l, m \in loads' :
             (l.call > 0 /\ m.call > 0 /\ l.section = m.section) => l = m
       /\ lastEvent' = "skip" =>
             (isRefreshing /\ UNCHANGED <<loads, display, storeVars, refreshCalls>>)]_vars

\* C1 witness: a refreshAll was skipped while the forced loads of an earlier
\* one were in flight.
C1_Witness ==
    /\ lastEvent = "skip"
    /\ isRefreshing
    /\ \E l \in loads : l.call > 0

\* the stored entry of a section is fresh: age <= CACHE_DURATION_MS
FreshEntry(s) ==
    /\ storageAvailable
    /\ WellFormedEntry(storage[s])
    /\ now - storage[s][2][2][2] <= CACHE_DURATION_MS

StoredItems(s) == storage[s][2][3][2]

\* C5 (as claimed): a non-forced loadSection of a section whose entry is
\* fresh renders exactly the cached items, starts no request, never shows the
\* placeholder and does not write the cache.
C5_FastPath ==
    [][(~pageLoaded /\ pageLoaded') =>
          \A s \in Sections :
             FreshEntry(s) =>
                /\ display'[s] = (IF StoredItems(s) = <<>> THEN EmptyState
                                  ELSE Shown(StoredItems(s)))
                /\ ~\E l \in loads' : l.section = s
                /\ storage'[s] = storage[s]]_vars

\* the stored text of a section can be read: it parses to an entry with items
EntryReadable(s) ==
    /\ storageAvailable
    /\ storage[s] \notin {Absent, EmptyText}
    /\ storage[s][1] = "json"
    /\ storage[s][2][1] = "obj"
    /\ storage[s][2][3][1] = "list"

\* C8 (as claimed): a section ends in the error state only when no stored
\* entry can be read, and no loadSection call rejects.
C8_ErrorOnlyWithoutEntry ==
    /\ \A s \in Sections : display[s] = ErrorMsg => ~EntryReadable(s)
    /\ rejected = {}

\* a load of section s by call c in which a feed hangs and every other feed
\* has settled
HangsWithOthersSettled(s, c) ==
    \E l \in loads :
       /\ l.section = s /\ l.call = c
       /\ \E f \in DOMAIN l.feeds : l.feeds[f] = Hung
       /\ \E f \in DOMAIN l.feeds : l.feeds[f][1] = "fulfilled"
       /\ \A f \in DOMAIN l.feeds : l.feeds[f] # Pending

InFlight(s, c) == \E l \in loads : l.section = s /\ l.call = c

\* C9 (as claimed): when one feed of a section hangs and its other feeds
\* have settled, fetchSection still completes and loadSection leaves the
\* loading state.
C9_HangDoesNotBlock ==
    \A s \in Sections, c \in 0..MaxRefresh :
       HangsWithOthersSettled(s, c) ~> ~InFlight(s, c)

\* a feed of the refreshAll in flight hangs
RefreshHung ==
    \E l \in loads : l.call > 0 /\ \E f \in DOMAIN l.feeds : l.feeds[f] = Hung

\* C10: the flag is true exactly while a refreshAll that passed the guard has
\* loads in flight; each such call, once finished, has updated the marker
\* exactly once; unless one of its requests hangs it finishes, whatever the
\* outcome of the sections; and a refreshAll invoked while none is in flight
\* is accepted, never skipped.
C10_RefreshCompletes ==
    /\ [][/\ isRefreshing' <=> RefreshesInFlight' # {}
          /\ stamps' = (IF pageLoaded' THEN 1 ELSE 0) + refreshCalls'
                         - (IF isRefreshing' THEN 1 ELSE 0)
          /\ (isRefreshing /\ ~isRefreshing') => stamps' = stamps + 1
          /\ (lastEvent' = "skip" /\ lastEvent # "skip") => isRefreshing
          /\ (pageLoaded /\ ~isRefreshing /\ refreshCalls < MaxRefresh) =>
                ENABLED RefreshAccept("click")]_vars
    /\ (isRefreshing ~> (~isRefreshing \/ RefreshHung))

\* C10 witness: with storage full, a second refreshAll was accepted after the
\* first and has finished, the marker updated once by the page load and once
\* by each; its czech load could not render what it fetched and shows the
\* earlier entry, its estonia load shows what it fetched.
C10_Witness ==
    /\ refreshCalls = 2
    /\ ~isRefreshing
    /\ stamps = 3
    /\ storageFull
    /\ display["czech"] = Shown(<<Item("czech", <<"date", 1>>, "str")>>)
    /\ display["estonia"] = Shown(<<Item("estonia", <<"date", 1>>, "str")>>)

-----------------------------------------------------------------------------
(* SpecFeed: fetchFeed calls, one after the other *)

FeedConfigs == {[name |-> "Radio Prague RU", lang |-> "ru"],
                [name |-> "Novinky.cz", lang |-> "cs"]}

\* two titles with the same first 100 characters, a description of more
\* than 300 characters
TitleA == Str("a", 120, "a", TRUE)
TitleB == Str("a", 110, "b", FALSE)
LongText == Str("d", 400, "d", TRUE)
ProxyItemsOf ==
    {JsNull,
     PItem(TitleA, LongText, Str("l", 20, "", FALSE), <<"date", 1>>),
     PItem(TitleB, Undefined, Undefined, Undefined)}

ProxyBodies ==
    {ProxyNotJson, JsNull, Data("error", Undefined), Data("ok", Undefined),
     Data("ok", Num(5))}
    \cup {Data("ok", JList(l)) : l \in SeqsUpTo(ProxyItemsOf, MaxProxyItems)}

\* the failure cases of an answer of the proxy
BodyFaults(body) ==
    IF body = ProxyNotJson THEN {"notjson"}
    ELSE IF body = JsNull THEN {"status"}
    ELSE (IF body[2] # "ok" THEN {"status"} ELSE {})
         \cup (IF body[3][1] # "list" THEN {"items"}
               ELSE IF \E i \in 1..Len(body[3][2]) : body[3][2][i] = JsNull
               THEN {"items"} ELSE {})

TrTexts == {Str("r", 90, "", FALSE), Str("r", 350, "r", FALSE)}
PartAb == Str("ab", 2, "", FALSE)
TrBodies ==
    {TrNotJson, JsNull, Num(5), JList(<<>>), JList(<<Num(5)>>),
     JList(<<JList(<<>>)>>), JList(<<JList(<<Num(5)>>)>>),
     JList(<<JList(<<JsNull>>)>>), JList(<<JList(<<PartAb>>)>>),
     JList(<<JList(<<JList(<<JObj(Undefined, Undefined)>>)>>)>>)}
    \cup {TrParts(t) : t \in TrTexts}

FeedInit ==
    /\ FeedIdle
    /\ CacheIdle
    /\ SortIdle
    /\ SwIdle
    /\ AppIdle

\* fetchFeed(feedConfig) up to await fetch(proxyUrl)
FetchFeedCall(cfg) ==
    /\ feedPhase \in {"idle", "done"}
    /\ feedCalls < MaxFeedCalls
    /\ feedCalls' = feedCalls + 1
    /\ feedConfig' = cfg
    /\ feedPhase' = "fetch"
    /\ feedRaw' = <<>>
    /\ feedFaults' = {}
    /\ feedResult' = Pending
    /\ trCalls' = <<>>
    /\ UNCHANGED <<trRequests, translationCache, notFeed>>

\* the proxy request settles: a transport error, a status that is not OK, or
\* an OK response whose body is then read
ProxyResponse(outcome) ==
    /\ feedPhase = "fetch"
    /\ IF outcome = "ok"
       THEN /\ feedPhase' = "json"
            /\ UNCHANGED <<feedFaults, feedResult>>
       ELSE /\ feedPhase' = "done"
            /\ feedFaults' = feedFaults \cup {outcome}
            /\ feedResult' = FeedCatch(Throw)
    /\ UNCHANGED <<feedConfig, feedRaw, feedCalls, trCalls, trRequests, translationCache,
                   notFeed>>

\* fetchFeed once every translateText call has returned
FeedTranslated(raw, calls) ==
    Fulfilled([i \in 1..Len(raw) |-> TranslatedItem(i, raw[i], feedConfig.lang, calls)])

\* resp.json() settles; fetchFeed returns, or maps the items and starts their
\* translation
ProxyJson(body) ==
    /\ feedPhase = "json"
    /\ feedFaults' = feedFaults \cup BodyFaults(body)
    /\ LET r == IF body = ProxyNotJson THEN Throw ELSE FetchFeedParsed(body, feedConfig)
       IN  IF r = Throw \/ r[1] = "return"
           THEN /\ feedPhase' = "done"
                /\ feedResult' = FeedCatch(r)
                /\ UNCHANGED <<feedRaw, trCalls, trRequests>>
           ELSE LET calls == TranslateItems(1, r[2], feedConfig.lang, translationCache)
                IN  /\ feedRaw' = r[2]
                    /\ trCalls' = calls
                    /\ trRequests' = trRequests
                          + Cardinality({c \in 1..Len(calls) : calls[c].state = "fetch"})
                    /\ IF AllDone(calls)
                       THEN /\ feedPhase' = "done"
                            /\ feedResult' = FeedTranslated(r[2], calls)
                       ELSE /\ feedPhase' = "translate"
                            /\ UNCHANGED feedResult
    /\ UNCHANGED <<feedConfig, feedCalls, translationCache, notFeed>>

\* a translateText call has returned: with the last one of a fetchFeed,
\* fetchFeed resolves
TrReturned(calls) ==
    /\ trCalls' = calls
    /\ IF feedPhase = "translate" /\ AllDone(calls)
       THEN /\ feedPhase' = "done"
            /\ feedResult' = FeedTranslated(feedRaw, calls)
       ELSE UNCHANGED <<feedPhase, feedResult>>

\* the translation request of call c settles
TrResponse(c, outcome) ==
    /\ c \in 1..Len(trCalls)
    /\ trCalls[c].state = "fetch"
    /\ IF outcome = "ok"
       THEN /\ trCalls' = [trCalls EXCEPT ![c].state = "json"]
            /\ UNCHANGED <<feedPhase, feedResult, feedFaults>>
       ELSE /\ TrReturned([trCalls EXCEPT ![c].state = "done",
                                          ![c].value = TranslateCatch(Throw, trCalls[c].text),
                                          ![c].answer = <<outcome>>,
                                          ![c].failed = TRUE])
            /\ feedFaults' = feedFaults \cup {"translate"}
    /\ UNCHANGED <<feedConfig, feedRaw, feedCalls, trRequests, translationCache, notFeed>>

\* resp.json() of call c settles; the translation is memoized and returned
TrJson(c, body) ==
    /\ c \in 1..Len(trCalls)
    /\ trCalls[c].state = "json"
    /\ LET r == TranslateParse(body)
       IN  /\ TrReturned([trCalls EXCEPT ![c].state = "done",
                                         ![c].value = TranslateCatch(r, trCalls[c].text),
                                         ![c].answer = body,
                                         ![c].failed = (r = Throw)])
           /\ translationCache' =
                 IF r = Throw THEN translationCache
                 ELSE MapSet(translationCache, CacheKey(trCalls[c].lang, trCalls[c].text), r)
           /\ feedFaults' = feedFaults \cup (IF r = Throw THEN {"translate"} ELSE {})
    /\ UNCHANGED <<feedConfig, feedRaw, feedCalls, trRequests, notFeed>>

FeedNext ==
    \/ \E cfg \in FeedConfigs : FetchFeedCall(cfg)
    \/ \E outcome \in {"transport", "http", "ok"} : ProxyResponse(outcome)
    \/ \E body \in ProxyBodies : ProxyJson(body)
    \/ \E c \in 1..(2 * MaxProxyItems), outcome \in {"transport", "http", "ok"} :
          TrResponse(c, outcome)
    \/ \E c \in 1..(2 * MaxProxyItems), body \in TrBodies : TrJson(c, body)

SpecFeed == FeedInit /\ [][FeedNext]_vars

FeedReturned == feedPhase = "done" /\ feedResult[1] = "fulfilled"

\* C7 (as claimed): fetchFeed never rejects, and resolves to the empty list
\* whenever the proxy request or the translation of an item failed.
C7_EmptyOnEveryFailure ==
    /\ feedResult # Rejected
    /\ feedPhase = "done" => FeedReturned
    /\ (FeedReturned /\ feedFaults # {}) => feedResult[2] = <<>>

\* C7 (amended): fetchFeed never rejects; it resolves to the empty list when
\* the proxy request failed, and when only translations failed to the mapped
\* items, those of the failed calls with their original text.
C7_EmptyOnProxyFailure ==
    /\ feedResult # Rejected
    /\ feedPhase = "done" => FeedReturned
    /\ (FeedReturned /\ feedFaults \ {"translate"} # {}) => feedResult[2] = <<>>
    /\ (FeedReturned /\ feedFaults = {"translate"}) =>
          /\ Len(feedResult[2]) = Len(feedRaw)
          /\ \A c \in 1..Len(trCalls) :
                trCalls[c].failed =>
                   LET it == feedResult[2][trCalls[c].item]
                   IN  IF trCalls[c].field = "title"
                       THEN it.title = feedRaw[trCalls[c].item].title
                       ELSE it.description = feedRaw[trCalls[c].item].description

\* C7 witness: fetchFeed has resolved to a list that is not empty although a
\* translation request failed.
C7_Witness ==
    /\ FeedReturned
    /\ feedFaults = {"translate"}
    /\ feedResult[2] # <<>>
    /\ \E c \in 1..Len(trCalls) : trCalls[c].failed

\* the key of a translateText call
CallKey(call) == CacheKey(call.lang, call.text)

\* C15 (as claimed): every item fetchFeed returns has a description of at
\* most 300 characters, translated or not.
C15_DescriptionAtMost300 ==
    FeedReturned =>
       \A i \in 1..Len(feedResult[2]) : feedResult[2][i].description[3] <= 300

\* C17 (as claimed): among the translateText calls one fetchFeed starts, at
\* most one per cache key sends a request, and a cached value never changes.
C17_OneRequestPerKey ==
    [][/\ \A c, d \in 1..Len(trCalls') :
             (c # d /\ CallKey(trCalls'[c]) = CallKey(trCalls'[d])) =>
                ~(trCalls'[c].requested /\ trCalls'[d].requested)
       /\ \A e \in translationCache : e \in translationCache']_vars

-----------------------------------------------------------------------------
(* SpecTranslate: translateText called directly, calls overlapping *)

TrInputs == {EmptyStr, stripHtml(TitleA), TitleB}
TrLangs == {"ru", "cs"}

\* translateText(text, fromLang) up to its first await
TranslateCall(text, lang) ==
    /\ Len(trCalls) < MaxTrCalls
    /\ LET call == TrCall(Len(trCalls) + 1, "text", text, lang, translationCache)
       IN  /\ trCalls' = Append(trCalls, call)
           /\ trRequests' = trRequests + (IF call.requested THEN 1 ELSE 0)
    /\ UNCHANGED <<feedConfig, feedPhase, feedRaw, feedFaults, feedResult, feedCalls,
                   translationCache, notFeed>>

TrNext ==
    \/ \E text \in TrInputs, lang \in TrLangs : TranslateCall(text, lang)
    \/ \E c \in 1..MaxTrCalls, outcome \in {"transport", "http", "ok"} :
          TrResponse(c, outcome)
    \/ \E c \in 1..MaxTrCalls, body \in TrBodies : TrJson(c, body)

SpecTranslate == FeedInit /\ [][TrNext]_vars

\* the step is a call of translateText
IsCall == Len(trCalls') = Len(trCalls) + 1

\* C12: a translateText call with fromLang "ru" or with empty text returns
\* the text at once, sends no request and leaves the translation cache as it
\* is, whatever the cache holds.
C12_NoRequestForRuOrEmpty ==
    [][IsCall =>
          LET call == trCalls'[Len(trCalls')]
          IN  (call.lang = "ru" \/ call.text = EmptyStr) =>
                 /\ call.state = "done"
                 /\ call.value = call.text
                 /\ ~call.requested
                 /\ trRequests' = trRequests
                 /\ translationCache' = translationCache]_vars

\* C12 witness: translateText has returned a text for "ru" although the cache
\* holds a translation of that text from "cs", and has returned an empty text.
C12_Witness ==
    /\ \E c \in 1..Len(trCalls) :
          /\ trCalls[c].lang = "ru" /\ trCalls[c].text # EmptyStr
          /\ trCalls[c].state = "done" /\ trCalls[c].value = trCalls[c].text
          /\ MapHas(translationCache, CacheKey("cs", trCalls[c].text))
    /\ \E c \in 1..Len(trCalls) : trCalls[c].lang = "cs" /\ trCalls[c].text = EmptyStr

\* call c returns in this step
Returns(c) == c \in 1..Len(trCalls) /\ trCalls[c].state # "done" /\ trCalls'[c].state = "done"

\* the translation request of the call failed: a transport error, a status
\* that is not OK, or an answer that has not the shape [[[text, ...], ...], ...]
RequestFailed(call) == call.answer[1] # "parts"

\* C16 (as claimed): a failed translation request (transport error, non-OK
\* status or an answer without the expected nested-array shape) returns the
\* original text and leaves the cache unchanged; a successful one is in the
\* cache under the key when the call returns; a call finds its key in the
\* cache and returns the value with no request, or does not find it and sends
\* a request.
C16_OnlySuccessMemoized ==
    [][/\ \A c \in 1..MaxTrCalls :
             Returns(c) =>
                IF RequestFailed(trCalls'[c])
                THEN /\ trCalls'[c].value = trCalls[c].text
                     /\ translationCache' = translationCache
                ELSE /\ MapHas(translationCache', CallKey(trCalls[c]))
                     /\ MapGet(translationCache', CallKey(trCalls[c])) = trCalls'[c].value
       /\ IsCall =>
             LET call == trCalls'[Len(trCalls')]
             IN  (call.lang # "ru" /\ call.text # EmptyStr) =>
                    IF MapHas(translationCache, CallKey(call))
                    THEN /\ call.state = "done"
                         /\ call.value = MapGet(translationCache, CallKey(call))
                         /\ trRequests' = trRequests
                    ELSE /\ call.requested
                         /\ trRequests' = trRequests + 1]_vars

-----------------------------------------------------------------------------
(* SpecVisit: the page loaded, closed and loaded again as time passes *)

\* fetchSection resolves to the empty list with this feed
AllFailed(l, f, list) ==
    LET feeds == [l.feeds EXCEPT ![f] = Fulfilled(list)]
    IN  AllSettled(feeds) /\ fetchSection(feeds) = <<>>

\* FeedSettle, the step noted when it ends a load in which every feed failed
VisitSettle(l, f, list) ==
    /\ FeedSettleStep(l, f, list)
    /\ lastEvent' = IF AllFailed(l, f, list) THEN "allfailed" ELSE "feed"

VisitTick(d) ==
    /\ TickTo(d)
    /\ lastEvent' = "tick"
    /\ UNCHANGED <<storageAvailable, storageFull, storage, display, isRefreshing, stamps,
                   loads, pageLoaded, refreshCalls, rejected, notApp>>

\* the page is closed and opened again: the script starts afresh, the
\* requests in flight are dropped, localStorage stays
Reload ==
    /\ pageLoaded
    /\ display' = [s \in Sections |-> Blank]
    /\ isRefreshing' = FALSE
    /\ stamps' = 0
    /\ loads' = {}
    /\ pageLoaded' = FALSE
    /\ refreshCalls' = 0
    /\ rejected' = {}
    /\ lastEvent' = "reload"
    /\ UNCHANGED <<storeVars, notApp>>

VisitNext ==
    \/ PageLoad
    \/ \E l \in loads, f \in {1, 2} :
          \E list \in FeedLists(l.section, f) : VisitSettle(l, f, list)
    \/ \E d \in TickSteps : VisitTick(d)
    \/ Reload

SpecVisit == AppInit /\ [][VisitNext]_vars

\* the section's stored entry has no items and is fresh
EmptyEntryFresh(s) ==
    \E t \in {a + b : a, b \in {0} \cup TickSteps} :
       storage[s] = Stringify(t, <<>>) /\ now - t <= CACHE_DURATION_MS

\* the load that ends in this step
Ended == loads \ loads'

\* C18 (as claimed): a load in which every feed failed overwrites the stored
\* entry with {timestamp: now, items: []} and renders the empty state, and a
\* non-forced load that finds this entry fresh renders the empty state and
\* starts no request.
C18_AllFailedOverwrites ==
    [][/\ lastEvent' = "allfailed" =>
             \A l \in Ended :
                /\ storage'[l.section] = Stringify(now, <<>>)
                /\ display'[l.section] = EmptyState
       /\ (~pageLoaded /\ pageLoaded') =>
             \A s \in Sections :
                EmptyEntryFresh(s) =>
                   /\ display'[s] = EmptyState
                   /\ ~\E l \in loads' : l.section = s]_vars

\* C18 (amended): the same, the entry being overwritten when the write does
\* not throw and left as it was when storage is unavailable or full.
C18_AllFailedOverwritesIfWritable ==
    [][/\ lastEvent' = "allfailed" =>
             \A l \in Ended :
                /\ storage'[l.section] =
                      (IF storageAvailable /\ ~storageFull
                       THEN Stringify(now, <<>>) ELSE storage[l.section])
                /\ display'[l.section] = EmptyState
       /\ (~pageLoaded /\ pageLoaded') =>
             \A s \in Sections :
                EmptyEntryFresh(s) =>
                   /\ display'[s] = EmptyState
                   /\ ~\E l \in loads' : l.section = s]_vars

\* C18 witness: the page was loaded again CACHE_DURATION_MS after a load in
\* which every feed failed, and shows the empty state without a request.
C18_Witness ==
    /\ lastEvent = "pageload"
    /\ storage["czech"] = Stringify(now - CACHE_DURATION_MS, <<>>)
    /\ display["czech"] = EmptyState
    /\ ~\E l \in loads : l.section = "czech"

\* C19: when storage writes succeed, a container that shows an item list
\* shows the items of the section's stored entry, whatever the order in which
\* overlapping loads of the section finish.
C19_DisplayAgreesWithStore ==
    (storageAvailable /\ ~storageFull) =>
       \A s \in Sections :
          display[s][1] = "items" =>
             /\ WellFormedEntry(storage[s])
             /\ StoredItems(s) = display[s][2]

\* C19 witness: the initial load of czech has finished and rendered its
\* items while the forced load of a refreshAll for czech is in flight.
C19_Witness ==
    /\ storageAvailable /\ ~storageFull
    /\ display["czech"][1] = "items"
    /\ \E l \in loads : l.section = "czech" /\ l.call > 0
    /\ \E l \in loads : l.section = "estonia" /\ l.call = 0

\* C20: a container shows the placeholder only while a load of its section
\* is in flight, and with every request that does not hang settling, the
\* placeholder is eventually replaced.
C20_PlaceholderReplaced ==
    /\ [][\A s \in Sections :
             display'[s] = Skeleton => \E l \in loads' : l.section = s]_vars
    /\ (\E s \in Sections : display[s] = Skeleton)
          ~> ((\A s \in Sections : display[s] # Skeleton) \/ HungFeeds # {})

\* C20 witness: the initial loads and a refreshAll have all finished and no
\* container shows the placeholder.
C20_Witness ==
    /\ pageLoaded /\ refreshCalls >= 1 /\ loads = {}
    /\ \A s \in Sections : display[s] \notin {Skeleton, Blank}

====
